---- MODULE Spec2Model ----
(***************************************************************************)
(* A model of the two modules of the expense tracker:                      *)
(*   src/lib/checkUser.ts  - the user provisioner (find-or-create)         *)
(*   src/unnamed/part_000  - the insight generator (three calls to a       *)
(*                           generative model, each with a fallback)       *)
(*                                                                         *)
(* JavaScript values are tagged records: [t |-> "undefined"],              *)
(* [t |-> "null"], [t |-> "bool", b |-> ..], [t |-> "num", n |-> ..],      *)
(* [t |-> "str", s |-> ..], [t |-> "arr", a |-> <<..>>] and                *)
(* [t |-> "obj", o |-> [key |-> value]].  A number is held in tenths       *)
(* (0.8 is 8, 1 is 10), since the only fractions the code names are 0.8    *)
(* and 0.5.                                                                *)
(***************************************************************************)
EXTENDS Integers, Sequences, FiniteSets, TLC

VARIABLES
    users,          \* the rows of the database's user table
    pc,             \* per call slot: where the checkUser call stands
    user,           \* per call slot: what currentUser() returned (line 6)
    existingUser,   \* per call slot: what findUnique returned (line 8)
    result,         \* per call slot: the value the call returned
    err,            \* per call slot: the error the call rejected with
    createIssued,   \* history: this call has invoked db.user.create
    overlap,        \* history: another call was in flight during this one
    storedAtStart,  \* history: the ids that had a row when this call was invoked
    aiCall          \* the last call of the insight generator and its outcome

vars == <<users, pc, user, existingUser, result, err, createIssued, overlap,
          storedAtStart, aiCall>>

userVars == <<users, pc, user, existingUser, result, err, createIssued, overlap,
              storedAtStart>>

(***************************************************************************)
(* Bounds of the model.                                                    *)
(***************************************************************************)
NumCalls == 2
MaxPad == 1
MaxInsights == 2
MaxExpenses == 1

(***************************************************************************)
(* JavaScript values.                                                      *)
(***************************************************************************)
Undefined == [t |-> "undefined"]
Null == [t |-> "null"]
Str(s) == [t |-> "str", s |-> s]
Num(n) == [t |-> "num", n |-> n]
Bool(b) == [t |-> "bool", b |-> b]
Arr(a) == [t |-> "arr", a |-> a]
Obj(o) == [t |-> "obj", o |-> o]

\* ToBoolean: what `!v` and `v || d` test.
Truthy(v) ==
    CASE v.t = "undefined" -> FALSE
      [] v.t = "null" -> FALSE
      [] v.t = "bool" -> v.b
      [] v.t = "num" -> v.n # 0
      [] v.t = "str" -> v.s # ""
      [] OTHER -> TRUE

\* `v || d`
Or(v, d) == IF Truthy(v) THEN v ELSE d

\* `${v}` in a template literal, for the values a session field can hold.
TemplateStr(v) ==
    CASE v.t = "str" -> v.s
      [] v.t = "null" -> "null"
      [] v.t = "undefined" -> "undefined"

(***************************************************************************)
(* The user provisioner, src/lib/checkUser.ts.                             *)
(***************************************************************************)
Calls == 1..NumCalls

\* What currentUser() can resolve with: null, or a session user.  user_1
\* appears with two profiles, as it would after the user edits the profile
\* at the identity provider; the second has no email address (an account
\* that signs in by phone number).
SessionUsers ==
    { [t |-> "obj", id |-> "user_1",
       emailAddresses |-> << [emailAddress |-> "ada@x.io"], [emailAddress |-> "ada@y.io"] >>,
       firstName |-> Str("Ada"), lastName |-> Str("King"), imageUrl |-> "img_1"],
      [t |-> "obj", id |-> "user_1",
       emailAddresses |-> << >>,
       firstName |-> Null, lastName |-> Null, imageUrl |-> "img_2"],
      [t |-> "obj", id |-> "user_2",
       emailAddresses |-> << [emailAddress |-> "bob@x.io"] >>,
       firstName |-> Str("Bob"), lastName |-> Null, imageUrl |-> "img_3"] }

CurrentUserResults == SessionUsers \cup {Null}

NoError == "none"
\* A rejection of currentUser(), line 6.
AuthError == "AuthError"
\* `user.emailAddresses[0].emailAddress` of an empty list, line 17.
TypeError == "TypeError"
DbError == "DbError"
DuplicateKey == "DuplicateKey"

\* The call has been invoked and has not settled: it is suspended at one of
\* its three awaits.
InFlight(p) == pc[p] \in {"currentUser", "findUnique", "create"}

\* db.user.findUnique({where: {clerkUserId: id}}): the row, or null.
DbFindUnique(rows, id) ==
    IF \E r \in rows : r.clerkUserId = id
    THEN CHOOSE r \in rows : r.clerkUserId = id
    ELSE Null

\* The unique key on clerkUserId: a row of that id is already stored.
DbKeyTaken(rows, data) == \E r \in rows : r.clerkUserId = data.clerkUserId

\* A variant of CreateData that takes the last email address.
CreateDataLastEmail(u) ==
    [t |-> "obj",
     clerkUserId |-> u.id,
     email |-> u.emailAddresses[Len(u.emailAddresses)].emailAddress,
     name |-> TemplateStr(u.firstName) \o " " \o TemplateStr(u.lastName),
     imageUrl |-> u.imageUrl]

\* The `data` of db.user.create, lines 15-20.
CreateData(u) ==
    [t |-> "obj",
     clerkUserId |-> u.id,
     email |-> u.emailAddresses[1].emailAddress,
     name |-> TemplateStr(u.firstName) \o " " \o TemplateStr(u.lastName),
     imageUrl |-> u.imageUrl]

\* Lines 5-6: the call is invoked and suspends at `await currentUser()`.  A
\* slot whose call has ended takes the next call.
CheckUserInvoke(p) ==
    /\ pc[p] \in {"idle", "returned", "threw"}
    /\ pc' = [pc EXCEPT ![p] = "currentUser"]
    /\ user' = [user EXCEPT ![p] = Undefined]
    /\ existingUser' = [existingUser EXCEPT ![p] = Undefined]
    /\ result' = [result EXCEPT ![p] = Undefined]
    /\ err' = [err EXCEPT ![p] = NoError]
    /\ createIssued' = [createIssued EXCEPT ![p] = FALSE]
    /\ overlap' = [q \in Calls |->
                     IF q = p THEN \E o \in Calls \ {p} : InFlight(o)
                     ELSE overlap[q] \/ InFlight(q)]
    /\ storedAtStart' = [storedAtStart EXCEPT ![p] = {r.clerkUserId : r \in users}]
    /\ UNCHANGED <<users, aiCall>>

\* Lines 6-8: currentUser() resolves with u; without a session the call
\* returns null, and otherwise findUnique is invoked with the session's id.
CurrentUserResolve(p, u) ==
    /\ pc[p] = "currentUser"
    /\ user' = [user EXCEPT ![p] = u]
    /\ IF ~Truthy(u)
       THEN /\ pc' = [pc EXCEPT ![p] = "returned"]
            /\ result' = [result EXCEPT ![p] = Null]
       ELSE /\ pc' = [pc EXCEPT ![p] = "findUnique"]
            /\ UNCHANGED result
    /\ UNCHANGED <<users, existingUser, err, createIssued, overlap, storedAtStart, aiCall>>

\* Line 6: currentUser() rejects (the identity provider is unreachable,
\* say); nothing catches it, so the call rejects.
CurrentUserReject(p) ==
    /\ pc[p] = "currentUser"
    /\ pc' = [pc EXCEPT ![p] = "threw"]
    /\ err' = [err EXCEPT ![p] = AuthError]
    /\ UNCHANGED <<users, user, existingUser, result, createIssued, overlap, storedAtStart, aiCall>>

\* A variant of FindUniqueResolve that ignores what the lookup found.
FindUniqueResolveAlwaysCreate(p) ==
    /\ pc[p] = "findUnique"
    /\ existingUser' = [existingUser EXCEPT ![p] = DbFindUnique(users, user[p].id)]
    /\ IF user[p].emailAddresses = <<>>
       THEN /\ pc' = [pc EXCEPT ![p] = "threw"]
            /\ err' = [err EXCEPT ![p] = TypeError]
            /\ UNCHANGED createIssued
       ELSE /\ pc' = [pc EXCEPT ![p] = "create"]
            /\ createIssued' = [createIssued EXCEPT ![p] = TRUE]
            /\ UNCHANGED err
    /\ UNCHANGED <<users, user, result, overlap, storedAtStart, aiCall>>

\* A variant of FindUniqueResolve that returns the row found with the
\* session's image in it.
FindUniqueResolveFresh(p) ==
    /\ pc[p] = "findUnique"
    /\ LET found == DbFindUnique(users, user[p].id) IN
       /\ existingUser' = [existingUser EXCEPT ![p] = found]
       /\ IF Truthy(found)
          THEN /\ pc' = [pc EXCEPT ![p] = "returned"]
               /\ result' = [result EXCEPT ![p] = [found EXCEPT !.imageUrl = user[p].imageUrl]]
               /\ UNCHANGED <<createIssued, err>>
          ELSE IF user[p].emailAddresses = <<>>
          THEN /\ pc' = [pc EXCEPT ![p] = "threw"]
               /\ err' = [err EXCEPT ![p] = TypeError]
               /\ UNCHANGED <<createIssued, result>>
          ELSE /\ pc' = [pc EXCEPT ![p] = "create"]
               /\ createIssued' = [createIssued EXCEPT ![p] = TRUE]
               /\ UNCHANGED <<result, err>>
    /\ UNCHANGED <<users, user, overlap, storedAtStart, aiCall>>

\* A variant of FindUniqueResolve that stores the session's image in the row
\* found.
FindUniqueResolveSync(p) ==
    /\ pc[p] = "findUnique"
    /\ LET found == DbFindUnique(users, user[p].id) IN
       /\ existingUser' = [existingUser EXCEPT ![p] = found]
       /\ IF Truthy(found)
          THEN /\ pc' = [pc EXCEPT ![p] = "returned"]
               /\ result' = [result EXCEPT ![p] = [found EXCEPT !.imageUrl = user[p].imageUrl]]
               /\ users' = (users \ {found}) \cup {[found EXCEPT !.imageUrl = user[p].imageUrl]}
               /\ UNCHANGED <<createIssued, err>>
          ELSE IF user[p].emailAddresses = <<>>
          THEN /\ pc' = [pc EXCEPT ![p] = "threw"]
               /\ err' = [err EXCEPT ![p] = TypeError]
               /\ UNCHANGED <<createIssued, result, users>>
          ELSE /\ pc' = [pc EXCEPT ![p] = "create"]
               /\ createIssued' = [createIssued EXCEPT ![p] = TRUE]
               /\ UNCHANGED <<result, err, users>>
    /\ UNCHANGED <<user, overlap, storedAtStart, aiCall>>

\* Lines 8-20: findUnique resolves; a row found is returned as it is.
\* Otherwise the argument of db.user.create is built from the session's
\* fields: reading `emailAddresses[0].emailAddress` of an empty list throws
\* a TypeError, which nothing catches, before create is invoked; with an
\* email address, create is invoked.
FindUniqueResolve(p) ==
    /\ pc[p] = "findUnique"
    /\ LET found == DbFindUnique(users, user[p].id) IN
       /\ existingUser' = [existingUser EXCEPT ![p] = found]
       /\ IF Truthy(found)
          THEN /\ pc' = [pc EXCEPT ![p] = "returned"]
               /\ result' = [result EXCEPT ![p] = found]
               /\ UNCHANGED <<createIssued, err>>
          ELSE IF user[p].emailAddresses = <<>>
          THEN /\ pc' = [pc EXCEPT ![p] = "threw"]
               /\ err' = [err EXCEPT ![p] = TypeError]
               /\ UNCHANGED <<createIssued, result>>
          ELSE /\ pc' = [pc EXCEPT ![p] = "create"]
               /\ createIssued' = [createIssued EXCEPT ![p] = TRUE]
               /\ UNCHANGED <<result, err>>
    /\ UNCHANGED <<users, user, overlap, storedAtStart, aiCall>>

\* Line 8: findUnique rejects (the database is unreachable, say); nothing
\* catches it, so the call rejects.
FindUniqueReject(p) ==
    /\ pc[p] = "findUnique"
    /\ pc' = [pc EXCEPT ![p] = "threw"]
    /\ err' = [err EXCEPT ![p] = DbError]
    /\ UNCHANGED <<users, user, existingUser, result, createIssued, overlap, storedAtStart, aiCall>>

\* Line 14: db.user.create resolves with the stored row, or rejects on a
\* clerkUserId already stored; the call returns or rejects with it.
CreateResolve(p) ==
    /\ pc[p] = "create"
    /\ LET data == CreateData(user[p]) IN
       IF DbKeyTaken(users, data)
       THEN /\ pc' = [pc EXCEPT ![p] = "threw"]
            /\ err' = [err EXCEPT ![p] = DuplicateKey]
            /\ UNCHANGED <<users, result>>
       ELSE /\ users' = users \cup {data}
            /\ pc' = [pc EXCEPT ![p] = "returned"]
            /\ result' = [result EXCEPT ![p] = data]
            /\ UNCHANGED err
    /\ UNCHANGED <<user, existingUser, createIssued, overlap, storedAtStart, aiCall>>

\* Line 14: db.user.create rejects for a reason other than the key.
CreateReject(p) ==
    /\ pc[p] = "create"
    /\ pc' = [pc EXCEPT ![p] = "threw"]
    /\ err' = [err EXCEPT ![p] = DbError]
    /\ UNCHANGED <<users, user, existingUser, result, createIssued, overlap, storedAtStart, aiCall>>

CheckUserStart == \E p \in Calls : CheckUserInvoke(p)
CheckUserSession(sessions) == \E p \in Calls, u \in sessions : CurrentUserResolve(p, u)
CheckUserSessionFails == \E p \in Calls : CurrentUserReject(p)
CheckUserFind == \E p \in Calls : FindUniqueResolve(p)
CheckUserFindFails == \E p \in Calls : FindUniqueReject(p)
CheckUserCreate == \E p \in Calls : CreateResolve(p)
CheckUserCreateFails == \E p \in Calls : CreateReject(p)

UserSteps ==
    \/ CheckUserStart
    \/ CheckUserSessionFails
    \/ CheckUserFind
    \/ CheckUserFindFails
    \/ CheckUserCreate
    \/ CheckUserCreateFails

UserNext == CheckUserSession(CurrentUserResults) \/ UserSteps

\* The sessions of one identity.
OneIdentity == {u \in SessionUsers : u.id = "user_1"}


(***************************************************************************)
(* The insight generator, src/unnamed/part_000.                            *)
(*                                                                         *)
(* The text of a model response is [t |-> "text", s |-> <<..>>].  For the  *)
(* JSON call the sequence holds the text's lexical tokens; for the two     *)
(* plain-text calls it holds its characters.                               *)
(***************************************************************************)
Text(s) == [t |-> "text", s |-> s]

\* ToBoolean of a response text: `!responseText` holds of undefined and "".
TextTruthy(v) == v.t = "text" /\ v.s # <<>>

SeqsUpTo(S, n) == UNION {[1..k -> S] : k \in 0..n}

Return(v) == [kind |-> "return", value |-> v]
Throw(e) == [kind |-> "throw", error |-> e]

\* model.generateContent(..) rejects, or resolves with a response whose
\* text() is the given value.
Rejects == [kind |-> "reject"]
Resolves(text) == [kind |-> "resolve", text |-> text]

\* ---- JSON texts ------------------------------------------------------
TPunct(c) == [k |-> "punct", c |-> c]
TString(s) == [k |-> "string", s |-> s]
TNumber(n) == [k |-> "number", n |-> n]
TLiteral(w) == [k |-> "literal", w |-> w]
TWord(w) == [k |-> "word", w |-> w]
TSpace == [k |-> "space"]

IsPunct(tok, c) == tok.k = "punct" /\ tok.c = c

ParseFail == [ok |-> FALSE]
ParseOk(v, rest) == [ok |-> TRUE, val |-> v, rest |-> rest]

RECURSIVE ParseValue(_), ParseElements(_, _), ParseMembers(_, _)

\* One JSON value at the head of the tokens: the value and the tokens left.
ParseValue(ts) ==
    IF ts = <<>> THEN ParseFail
    ELSE LET h == Head(ts)
             r == Tail(ts) IN
         CASE h.k = "literal" /\ h.w = "null" -> ParseOk(Null, r)
           [] h.k = "literal" /\ h.w = "true" -> ParseOk(Bool(TRUE), r)
           [] h.k = "literal" /\ h.w = "false" -> ParseOk(Bool(FALSE), r)
           [] h.k = "number" -> ParseOk(Num(h.n), r)
           [] h.k = "string" -> ParseOk(Str(h.s), r)
           [] IsPunct(h, "[") ->
                IF r # <<>> /\ IsPunct(Head(r), "]")
                THEN ParseOk(Arr(<<>>), Tail(r))
                ELSE ParseElements(r, <<>>)
           [] IsPunct(h, "{") ->
                IF r # <<>> /\ IsPunct(Head(r), "}")
                THEN ParseOk(Obj(<<>>), Tail(r))
                ELSE ParseMembers(r, <<>>)
           [] OTHER -> ParseFail

\* value ("," value)* "]"
ParseElements(ts, acc) ==
    LET v == ParseValue(ts) IN
    IF ~v.ok \/ v.rest = <<>> THEN ParseFail
    ELSE IF IsPunct(Head(v.rest), ",")
         THEN ParseElements(Tail(v.rest), Append(acc, v.val))
    ELSE IF IsPunct(Head(v.rest), "]")
         THEN ParseOk(Arr(Append(acc, v.val)), Tail(v.rest))
    ELSE ParseFail

\* string ":" value ("," string ":" value)* "}"; a repeated key keeps the
\* last value.
ParseMembers(ts, acc) ==
    IF Len(ts) < 2 \/ Head(ts).k # "string" \/ ~IsPunct(ts[2], ":") THEN ParseFail
    ELSE LET v == ParseValue(Tail(Tail(ts)))
             key == Head(ts).s IN
         IF ~v.ok \/ v.rest = <<>> THEN ParseFail
         ELSE LET acc2 == [x \in DOMAIN acc \cup {key} |->
                             IF x = key THEN v.val ELSE acc[x]] IN
              IF IsPunct(Head(v.rest), ",")
              THEN ParseMembers(Tail(v.rest), acc2)
              ELSE IF IsPunct(Head(v.rest), "}")
              THEN ParseOk(Obj(acc2), Tail(v.rest))
              ELSE ParseFail

NotSpace(tok) == tok.k # "space"

\* JSON.parse(text): the value, or a SyntaxError.
JSONParse(text) ==
    LET v == ParseValue(SelectSeq(text, NotSpace)) IN
    IF v.ok /\ v.rest = <<>> THEN [ok |-> TRUE, val |-> v.val] ELSE ParseFail

\* The keys of an insight object, in the order the prompt lists them.
InsightKeys == <<"type", "title", "message", "action", "confidence">>

RECURSIVE JoinTokens(_)
JoinTokens(parts) ==
    IF parts = <<>> THEN <<>>
    ELSE IF Len(parts) = 1 THEN parts[1]
    ELSE parts[1] \o <<TPunct(",")>> \o JoinTokens(Tail(parts))

IsKeyOf(o, key) == key \in DOMAIN o

RECURSIVE JSONText(_)
\* The JSON text of a value, as the model endpoint would write it.
JSONText(v) ==
    CASE v.t = "null" -> <<TLiteral("null")>>
      [] v.t = "bool" -> <<TLiteral(IF v.b THEN "true" ELSE "false")>>
      [] v.t = "num" -> <<TNumber(v.n)>>
      [] v.t = "str" -> <<TString(v.s)>>
      [] v.t = "arr" ->
           <<TPunct("[")>> \o JoinTokens([i \in 1..Len(v.a) |-> JSONText(v.a[i])])
                          \o <<TPunct("]")>>
      [] v.t = "obj" ->
           LET keys == SelectSeq(InsightKeys, LAMBDA key : IsKeyOf(v.o, key)) IN
           <<TPunct("{")>>
               \o JoinTokens([i \in 1..Len(keys) |->
                     <<TString(keys[i]), TPunct(":")>> \o JSONText(v.o[keys[i]])])
               \o <<TPunct("}")>>

\* ---- generateExpenseInsights, lines 34-109 ----------------------------
DefaultConfidence == 8
FallbackConfidence == 5

InsightTypes == {Str("warning"), Str("info"), Str("success"), Str("tip")}

\* insight.key of a parsed element that is neither null nor undefined.
Get(v, key) == IF v.t = "obj" /\ key \in DOMAIN v.o THEN v.o[key] ELSE Undefined

\* Lines 83-90: one element of the parsed array made an insight.
FormatInsight(insight, index, now) ==
    [id |-> Str("ai-" \o ToString(now) \o "-" \o ToString(index)),
     type |-> Or(Get(insight, "type"), Str("info")),
     title |-> Or(Get(insight, "title"), Str("AI Insight")),
     message |-> Or(Get(insight, "message"), Str("Analysis complete")),
     action |-> Get(insight, "action"),
     confidence |-> Or(Get(insight, "confidence"), Num(DefaultConfidence))]

\* Lines 97-107.
FallbackInsights ==
    << [id |-> Str("fallback-1"),
        type |-> Str("info"),
        title |-> Str("AI Analysis Unavailable"),
        message |-> Str("Unable to generate personalized insights at this time. Please try again later."),
        action |-> Str("Refresh insights"),
        confidence |-> Num(FallbackConfidence)] >>

\* Lines 47-52 and 146-151: the expenses without their ids.
ExpensesSummary(expenses) ==
    [i \in 1..Len(expenses) |->
        [amount |-> expenses[i].amount, category |-> expenses[i].category,
         description |-> expenses[i].description, date |-> expenses[i].date]]

\* Lines 54-72: the fixed template with the summary embedded.
InsightsPrompt(expenses) ==
    [template |-> "financial advisor: 3-4 insights as a JSON array",
     data |-> ExpensesSummary(expenses)]

\* A variant of GenerateExpenseInsightsTry that maps an empty text or a
\* value that is no array to the empty list.
GenerateExpenseInsightsTryNoEmptyCheck(expenses, res, now) ==
    IF res.kind = "reject" THEN Throw("GenerateContentError")
    ELSE IF res.text.t = "undefined" THEN Throw("TypeError")
    ELSE IF res.text.s = <<>> THEN Return(<<>>)
    ELSE LET parsed == JSONParse(res.text.s) IN
         IF ~parsed.ok THEN Throw("SyntaxError")
         ELSE IF parsed.val.t # "arr" THEN Return(<<>>)
         ELSE IF \E i \in 1..Len(parsed.val.a) : parsed.val.a[i].t = "null"
              THEN Throw("TypeError")
         ELSE Return([i \in 1..Len(parsed.val.a) |->
                         FormatInsight(parsed.val.a[i], i - 1, now[i])])

\* Lines 38-93, the try block: the insights, or what it throws.  now[i] is
\* what Date.now() returns as element i is mapped.
GenerateExpenseInsightsTry(expenses, res, now) ==
    IF res.kind = "reject" THEN Throw("GenerateContentError")
    ELSE IF ~TextTruthy(res.text) THEN Throw("No response from AI")
    ELSE LET parsed == JSONParse(res.text.s) IN
         IF ~parsed.ok THEN Throw("SyntaxError")
         ELSE IF parsed.val.t # "arr" THEN Throw("TypeError")
         ELSE IF \E i \in 1..Len(parsed.val.a) : parsed.val.a[i].t = "null"
              THEN Throw("TypeError")
         ELSE Return([i \in 1..Len(parsed.val.a) |->
                         FormatInsight(parsed.val.a[i], i - 1, now[i])])

\* A variant of generateExpenseInsights without the catch.
GenerateExpenseInsightsNoCatch(expenses, res, now) ==
    LET o == GenerateExpenseInsightsTry(expenses, res, now) IN
    [kind |-> o.kind, value |-> IF o.kind = "throw" THEN <<>> ELSE o.value, log |-> <<>>]

\* Lines 37-108: try and catch.  A throw is logged and the fallback returned.
generateExpenseInsights(expenses, res, now) ==
    LET o == GenerateExpenseInsightsTry(expenses, res, now) IN
    IF o.kind = "throw"
    THEN [kind |-> "return", value |-> FallbackInsights,
          log |-> <<"Error generating AI insights with Gemini:", o.error>>]
    ELSE [kind |-> "return", value |-> o.value, log |-> <<>>]

\* ---- categorizeExpense, lines 111-137 ---------------------------------
\* A text is a sequence of characters.  A printable character is written as
\* itself and any other by TLA+'s escape or, where TLA+ has none, by the
\* name of its code point: "U+000B" is the vertical tab, "U+00A0" the
\* no-break space.
\*
\* What String.prototype.trim removes: the WhiteSpace and LineTerminator
\* code points of ECMAScript (tab, line feed, vertical tab, form feed,
\* carriage return, space, no-break space, the other space separators, the
\* line and paragraph separators and the byte order mark).
WhitespaceChars ==
    { "\t", "\n", "U+000B", "\f", "\r", " ", "U+00A0", "U+1680",
      "U+2000", "U+2001", "U+2002", "U+2003", "U+2004", "U+2005", "U+2006",
      "U+2007", "U+2008", "U+2009", "U+200A", "U+2028", "U+2029", "U+202F",
      "U+205F", "U+3000", "U+FEFF" }
IsWhitespace(c) == c \in WhitespaceChars

RECURSIVE TrimStart(_), TrimEnd(_)
TrimStart(s) ==
    IF s # <<>> /\ IsWhitespace(Head(s)) THEN TrimStart(Tail(s)) ELSE s
TrimEnd(s) ==
    IF s # <<>> /\ IsWhitespace(s[Len(s)]) THEN TrimEnd(SubSeq(s, 1, Len(s) - 1)) ELSE s

\* String.prototype.trim
Trim(s) == TrimEnd(TrimStart(s))

Food ==
    << "F", "o", "o", "d" >>
Transportation ==
    << "T", "r", "a", "n", "s", "p", "o", "r", "t", "a", "t", "i", "o",
       "n" >>
Entertainment ==
    << "E", "n", "t", "e", "r", "t", "a", "i", "n", "m", "e", "n", "t" >>
Shopping ==
    << "S", "h", "o", "p", "p", "i", "n", "g" >>
Bills ==
    << "B", "i", "l", "l", "s" >>
Healthcare ==
    << "H", "e", "a", "l", "t", "h", "c", "a", "r", "e" >>
Other ==
    << "O", "t", "h", "e", "r" >>
\* Lines 122-130.
validCategories == <<Food, Transportation, Entertainment, Shopping, Bills, Healthcare, Other>>

\* Array.prototype.includes
Includes(a, v) == \E i \in 1..Len(a) : a[i] = v

\* Lines 115-117.
CategorizePrompt(description) ==
    [template |-> "categorize into one of the seven categories", data |-> description]

\* A variant of CategorizeExpenseTry that does not trim.
CategorizeExpenseTryNoTrim(description, res) ==
    IF res.kind = "reject" THEN Throw("GenerateContentError")
    ELSE LET category == res.text IN
         Return(IF category.t = "text" /\ Includes(validCategories, category.s)
                THEN category ELSE Text(Other))

\* Lines 113-132, the try block.
CategorizeExpenseTry(description, res) ==
    IF res.kind = "reject" THEN Throw("GenerateContentError")
    ELSE LET category == IF res.text.t = "undefined" THEN Undefined
                         ELSE Text(Trim(res.text.s))
             orEmpty == IF TextTruthy(category) THEN category ELSE Text(<<>>) IN
         Return(IF Includes(validCategories, orEmpty.s) THEN category ELSE Text(Other))

\* Lines 112-136: try and catch.
categorizeExpense(description, res) ==
    LET o == CategorizeExpenseTry(description, res) IN
    IF o.kind = "throw"
    THEN [kind |-> "return", value |-> Text(Other),
          log |-> <<"Error categorizing expense with Gemini:", o.error>>]
    ELSE [kind |-> "return", value |-> o.value, log |-> <<>>]

\* ---- generateAIAnswer, lines 139-172 ----------------------------------
\* Line 170.
ApologyText ==
    << "I", "'", "m", " ", "u", "n", "a", "b", "l", "e", " ", "t", "o",
       " ", "p", "r", "o", "v", "i", "d", "e", " ", "a", " ", "d", "e",
       "t", "a", "i", "l", "e", "d", " ", "a", "n", "s", "w", "e", "r",
       " ", "a", "t", " ", "t", "h", "e", " ", "m", "o", "m", "e", "n",
       "t", ".", " ", "P", "l", "e", "a", "s", "e", " ", "t", "r", "y",
       " ", "r", "e", "f", "r", "e", "s", "h", "i", "n", "g", " ", "t",
       "h", "e", " ", "i", "n", "s", "i", "g", "h", "t", "s", " ", "o",
       "r", " ", "c", "h", "e", "c", "k", " ", "y", "o", "u", "r", " ",
       "c", "o", "n", "n", "e", "c", "t", "i", "o", "n", "." >>
\* Lines 153-158.
AnswerPrompt(question, context) ==
    [template |-> "financial advisor: answer in 2-3 sentences",
     question |-> question, data |-> ExpensesSummary(context)]

\* Lines 144-167, the try block.
GenerateAIAnswerTry(question, context, res) ==
    IF res.kind = "reject" THEN Throw("GenerateContentError")
    ELSE IF ~TextTruthy(res.text) THEN Throw("No response from AI")
    ELSE Return(Text(Trim(res.text.s)))

\* Lines 143-171: try and catch.
generateAIAnswer(question, context, res) ==
    LET o == GenerateAIAnswerTry(question, context, res) IN
    IF o.kind = "throw"
    THEN [kind |-> "return", value |-> Text(ApologyText),
          log |-> <<"Error generating AI answer with Gemini:", o.error>>]
    ELSE [kind |-> "return", value |-> o.value, log |-> <<>>]

\* ---- what the callers pass and what the model endpoint answers --------
SampleExpenses ==
    { [id |-> "e1", amount |-> 50, category |-> "Food",
       description |-> "Lunch", date |-> "2024-01-01"],
      [id |-> "e2", amount |-> 1200, category |-> "Bills",
       description |-> "Rent", date |-> "2024-01-02"] }

ExpenseLists == SeqsUpTo(SampleExpenses, MaxExpenses)

Descriptions == {"Starbucks coffee", "Uber to airport"}
Questions == {"Where can I save?", "How much did I spend on food?"}

\* Elements the model may put in its JSON array: a complete insight, an
\* empty object, a confidence of 0, values out of range, empty strings,
\* nulls and values of the wrong type, and elements that are no objects.
SampleElements ==
    { Obj([type |-> Str("tip"), title |-> Str("Cut dining"),
           message |-> Str("You spent 50 on food"), action |-> Str("Cook at home"),
           confidence |-> Num(9)]),
      Obj(<<>>),
      Obj([type |-> Str("warning"), title |-> Str("Rent is high"),
           message |-> Str("Rent is 1200"), confidence |-> Num(0)]),
      Obj([type |-> Str("bogus"), confidence |-> Num(50)]),
      Obj([type |-> Str(""), title |-> Str(""), message |-> Str("")]),
      Obj([type |-> Null, action |-> Null, confidence |-> Str("high")]),
      Null,
      Num(70),
      Str("tip") }

JSONArrays == {Arr(a) : a \in SeqsUpTo(SampleElements, MaxInsights)}

NonArrayValues ==
    { Null, Num(90), Str("ok"), Bool(TRUE),
      Obj([type |-> Str("info"), title |-> Str("One insight"),
           message |-> Str("Not wrapped in an array"), confidence |-> Num(8)]) }

ShortArrays == {v \in JSONArrays : Len(v.a) <= 1}

\* Texts that are no JSON: prose, blank text, a text cut short, a text with
\* prose after it.
MalformedTexts ==
    { <<TWord("Sorry"), TPunct(","), TWord("no"), TWord("insights")>>, <<TSpace>> }
        \cup {SubSeq(JSONText(v), 1, Len(JSONText(v)) - 1) : v \in ShortArrays}
        \cup {JSONText(v) \o <<TWord("Done")>> : v \in ShortArrays}

WellFormedTexts ==
    {JSONText(v) : v \in JSONArrays \cup NonArrayValues}
        \cup {<<TSpace>> \o JSONText(v) \o <<TSpace>> : v \in ShortArrays}

InsightResults ==
    {Rejects, Resolves(Undefined), Resolves(Text(<<>>))}
        \cup {Resolves(Text(s)) : s \in WellFormedTexts \cup MalformedTexts}

\* The responses the spec calls failures of the insights call: the call
\* throws, the text is empty, is no JSON, or is JSON that is no array.
InsightsCallFails(res) ==
    \/ res.kind = "reject"
    \/ res.text.t = "undefined"
    \/ res.text.s = <<>>
    \/ ~JSONParse(res.text.s).ok
    \/ JSONParse(res.text.s).val.t # "arr"

\* One response of each kind of failure.
FailingInsightResults ==
    { Rejects, Resolves(Undefined), Resolves(Text(<<>>)), Resolves(Text(<<TSpace>>)),
      Resolves(Text(<<TWord("Sorry")>>)),
      Resolves(Text(<<TPunct("["), TPunct("{")>>)),
      Resolves(Text(JSONText(Null))),
      Resolves(Text(JSONText(Obj([type |-> Str("info")])))) }

Clock == {9, 10}

\* Date.now() is read once for each element mapped.
ClockReadings(res) ==
    IF InsightsCallFails(res) THEN {<<>>}
    ELSE [1..Len(JSONParse(res.text.s).val.a) -> Clock]

\* Plain texts: a core with whitespace around it.
PadChars == {" ", "\n", "\t", "U+00A0"}
Pads == SeqsUpTo(PadChars, MaxPad)

TextCores ==
    { Food, Transportation, Entertainment, Shopping, Bills, Healthcare, Other,
      <<>>,
      <<"f", "o", "o", "d">>,
      <<"F", "O", "O", "D">>,
      <<"F", "o", "o", "d", ".">>,
      <<"F", "o", "o", "d", " ", "B", "i", "l", "l", "s">>,
      <<"G", "r", "o", "c", "e", "r", "i", "e", "s">>,
      <<"F", "o", "o", "d", "U+200B">> }

PlainTexts == {l \o c \o r : l \in Pads, c \in TextCores, r \in Pads}

PlainResults == {Rejects, Resolves(Undefined)} \cup {Resolves(Text(s)) : s \in PlainTexts}

FailingPlainResults == {Rejects, Resolves(Undefined), Resolves(Text(<<>>))}

\* ---- the calls ------------------------------------------------------
\* Each call builds its prompt, awaits model.generateContent and, once that
\* has settled, runs to its return.  A new call may begin once the last one
\* has returned.
AiIdle == aiCall.op = "none" \/ aiCall.status = "done"
AiAwaiting(op) == aiCall.op = op /\ aiCall.status = "awaiting"

\* Lines 38-74.
GenerateExpenseInsightsInvoke(lists) ==
    /\ AiIdle
    /\ \E expenses \in lists :
          aiCall' = [op |-> "generateExpenseInsights", status |-> "awaiting",
                     expenses |-> expenses, prompt |-> InsightsPrompt(expenses)]
    /\ UNCHANGED userVars

\* Lines 74-108.
GenerateExpenseInsightsSettle(results) ==
    /\ AiAwaiting("generateExpenseInsights")
    /\ \E res \in results :
          \E now \in ClockReadings(res) :
              aiCall' = [op |-> aiCall.op, status |-> "done",
                         expenses |-> aiCall.expenses, prompt |-> aiCall.prompt,
                         res |-> res, now |-> now,
                         outcome |-> generateExpenseInsights(aiCall.expenses, res, now)]
    /\ UNCHANGED userVars

\* Lines 113-119.
CategorizeExpenseInvoke(descriptions) ==
    /\ AiIdle
    /\ \E description \in descriptions :
          aiCall' = [op |-> "categorizeExpense", status |-> "awaiting",
                     description |-> description,
                     prompt |-> CategorizePrompt(description)]
    /\ UNCHANGED userVars

\* Lines 119-136.
CategorizeExpenseSettle(results) ==
    /\ AiAwaiting("categorizeExpense")
    /\ \E res \in results :
          aiCall' = [op |-> aiCall.op, status |-> "done",
                     description |-> aiCall.description, prompt |-> aiCall.prompt,
                     res |-> res,
                     outcome |-> categorizeExpense(aiCall.description, res)]
    /\ UNCHANGED userVars

\* Lines 144-160.
GenerateAIAnswerInvoke(questions, lists) ==
    /\ AiIdle
    /\ \E question \in questions, context \in lists :
          aiCall' = [op |-> "generateAIAnswer", status |-> "awaiting",
                     question |-> question, context |-> context,
                     prompt |-> AnswerPrompt(question, context)]
    /\ UNCHANGED userVars

\* Lines 160-171.
GenerateAIAnswerSettle(results) ==
    /\ AiAwaiting("generateAIAnswer")
    /\ \E res \in results :
          aiCall' = [op |-> aiCall.op, status |-> "done",
                     question |-> aiCall.question, context |-> aiCall.context,
                     prompt |-> aiCall.prompt,
                     res |-> res,
                     outcome |-> generateAIAnswer(aiCall.question, aiCall.context, res)]
    /\ UNCHANGED userVars

InsightsNext ==
    \/ GenerateExpenseInsightsInvoke(ExpenseLists)
    \/ GenerateExpenseInsightsSettle(InsightResults)
    \/ CategorizeExpenseInvoke(Descriptions)
    \/ CategorizeExpenseSettle(PlainResults)
    \/ GenerateAIAnswerInvoke(Questions, ExpenseLists)
    \/ GenerateAIAnswerSettle(PlainResults)

\* The calls of the insight generator whose model call fails.
FailingInsightsNext ==
    \/ GenerateExpenseInsightsInvoke({<<>>})
    \/ GenerateExpenseInsightsSettle(FailingInsightResults)
    \/ CategorizeExpenseInvoke({"Starbucks coffee"})
    \/ CategorizeExpenseSettle(FailingPlainResults)
    \/ GenerateAIAnswerInvoke({"Where can I save?"}, {<<>>})
    \/ GenerateAIAnswerSettle(FailingPlainResults)

NoCall == [op |-> "none", status |-> "done"]

Init ==
    /\ users = {}
    /\ pc = [p \in Calls |-> "idle"]
    /\ user = [p \in Calls |-> Undefined]
    /\ existingUser = [p \in Calls |-> Undefined]
    /\ result = [p \in Calls |-> Undefined]
    /\ err = [p \in Calls |-> NoError]
    /\ createIssued = [p \in Calls |-> FALSE]
    /\ overlap = [p \in Calls |-> FALSE]
    /\ storedAtStart = [p \in Calls |-> {}]
    /\ aiCall = NoCall

Next == UserNext \/ InsightsNext

\* The whole program.  The two modules share no state, so what is claimed
\* of one is checked with the other at rest.
Spec == Init /\ [][Next]_vars

\* The user provisioner alone.
SpecUser == Init /\ [][UserNext]_vars

\* The insight generator alone.
SpecInsights == Init /\ [][InsightsNext]_vars

\* The user provisioner, serving one identity, beside the failing calls of
\* the insight generator.
SpecFailures ==
    Init /\ [][CheckUserSession(OneIdentity) \/ UserSteps \/ FailingInsightsNext]_vars

(***************************************************************************)
(* The claims about the user provisioner.                                  *)
(***************************************************************************)

\* The row the session's fields make: its id, its first email address,
\* firstName and lastName joined by one space, and imageUrl.
RowOfSession(u) ==
    [t |-> "obj",
     clerkUserId |-> u.id,
     email |-> Head(u.emailAddresses).emailAddress,
     name |-> TemplateStr(u.firstName) \o " " \o TemplateStr(u.lastName),
     imageUrl |-> u.imageUrl]

\* C5: a checkUser call that returns gives null without a session, the row
\* the lookup found (still stored, no create issued) when there was one, and
\* otherwise the newly stored row made of the session's fields; a create is
\* issued only with a session and after the call's lookup found no row.
C5_CheckUserResult ==
    /\ \A p \in Calls : pc[p] = "returned" =>
          /\ user[p].t = "null" => (result[p] = Null /\ ~createIssued[p])
          /\ (user[p].t = "obj" /\ existingUser[p].t = "obj") =>
                /\ result[p] = existingUser[p]
                /\ result[p] \in users
                /\ ~createIssued[p]
          /\ (user[p].t = "obj" /\ existingUser[p].t # "obj") =>
                /\ result[p] = RowOfSession(user[p])
                /\ result[p] \in users
                /\ createIssued[p]
    /\ \A p \in Calls : createIssued[p] =>
          (user[p].t = "obj" /\ existingUser[p] = Null)

\* Both paths have been taken: one call created a row from a session with
\* two email addresses, another found a stored row.
C5_Witness ==
    \E p, q \in Calls :
        /\ pc[p] = "returned" /\ createIssued[p]
        /\ Len(user[p].emailAddresses) > 1 /\ result[p] \in users
        /\ pc[q] = "returned" /\ existingUser[q].t = "obj"

\* C6: the table never holds two rows of one external id, and no step
\* changes or removes a stored row.
C6_CreatedOnce ==
    /\ [](\A r1, r2 \in users : r1.clerkUserId = r2.clerkUserId => r1 = r2)
    /\ [][users \subseteq users']_vars

\* Two identities are stored, a racing create was refused, and a later call
\* with a changed profile found the stored row.
C6_Witness ==
    /\ Cardinality(users) = 2
    /\ \E p \in Calls : pc[p] = "threw" /\ err[p] = DuplicateKey
    /\ \E q \in Calls :
          /\ pc[q] = "returned" /\ existingUser[q].t = "obj"
          /\ user[q].imageUrl # existingUser[q].imageUrl

\* C7: a create is refused for a duplicate key only in a call during which
\* another call was in flight; calls that do not overlap never see it.
C7_DuplicateKeyOnlyWhenOverlapping ==
    \A p \in Calls : err[p] = DuplicateKey => overlap[p]

\* The race: two calls of one identity both looked up and found nothing,
\* the first create stored the row and the second was refused and rejected.
C7_Witness ==
    \E p, q \in Calls :
        /\ p # q
        /\ user[p].t = "obj" /\ user[q].t = "obj" /\ user[p].id = user[q].id
        /\ existingUser[p] = Null /\ existingUser[q] = Null
        /\ pc[p] = "returned" /\ createIssued[p] /\ result[p] \in users
        /\ pc[q] = "threw" /\ createIssued[q] /\ err[q] = DuplicateKey

\* A row of the call's session id was stored when the call was invoked.
ExistedAtStart(p) == user[p].t = "obj" /\ user[p].id \in storedAtStart[p]

\* C9: a call invoked when a row of its session's id is stored issues no
\* create, never fails on the session's fields or on the key, and returns
\* that stored row, equal for all such calls of the id, whatever the
\* session's profile; its steps, and those of a call without a session,
\* leave the table as it was.
C9_FoundPathReadOnly ==
    /\ [](\A p \in Calls : ExistedAtStart(p) =>
            /\ ~createIssued[p]
            /\ pc[p] # "create"
            /\ err[p] \notin {TypeError, DuplicateKey}
            /\ pc[p] = "returned" =>
                  /\ result[p] \in users
                  /\ result[p].clerkUserId = user[p].id
                  /\ \A q \in Calls :
                        (ExistedAtStart(q) /\ pc[q] = "returned" /\ user[q].id = user[p].id)
                            => result[q] = result[p])
    /\ [][\A p \in Calls :
            (/\ pc'[p] # pc[p]
             /\ \/ user'[p].t = "null"
                \/ user'[p].t = "obj" /\ user'[p].id \in storedAtStart'[p])
                => users' = users]_vars

\* Two calls of one identity with different profiles both returned the one
\* stored row, which differs from the later session's profile.
C9_Witness ==
    \E p, q \in Calls :
        /\ p # q
        /\ ExistedAtStart(p) /\ ExistedAtStart(q)
        /\ pc[p] = "returned" /\ pc[q] = "returned"
        /\ user[p].id = user[q].id /\ user[p] # user[q]
        /\ result[p] = result[q] /\ result[p] \in users
        /\ user[p].imageUrl # result[p].imageUrl

(***************************************************************************)
(* The claims about the insight generator.                                 *)
(***************************************************************************)
InsightsDone == aiCall.op = "generateExpenseInsights" /\ aiCall.status = "done"
CategorizeDone == aiCall.op = "categorizeExpense" /\ aiCall.status = "done"
AnswerDone == aiCall.op = "generateAIAnswer" /\ aiCall.status = "done"

\* The fallback list as the spec gives it.
TheFallbackList ==
    << [id |-> Str("fallback-1"),
        type |-> Str("info"),
        title |-> Str("AI Analysis Unavailable"),
        message |-> Str("Unable to generate personalized insights at this time. Please try again later."),
        action |-> Str("Refresh insights"),
        confidence |-> Num(5)] >>

\* C1: generateExpenseInsights always returns, and when the model call
\* throws, gives no or empty text, text that is no JSON, or JSON that is no
\* array, it returns exactly the one-element fallback list.
C1_FailureGivesFallback ==
    InsightsDone =>
        /\ aiCall.outcome.kind = "return"
        /\ InsightsCallFails(aiCall.res) =>
              /\ Len(aiCall.outcome.value) = 1
              /\ aiCall.outcome.value = TheFallbackList

\* The model answered with well-formed JSON that is no array, and the call
\* returned the fallback list.
C1_Witness ==
    /\ InsightsDone
    /\ aiCall.res.kind = "resolve" /\ TextTruthy(aiCall.res.text)
    /\ JSONParse(aiCall.res.text.s).ok
    /\ JSONParse(aiCall.res.text.s).val.t = "obj"
    /\ aiCall.outcome.kind = "return"
    /\ aiCall.outcome.value = TheFallbackList

\* C2: generateExpenseInsights returns a non-empty list in which every
\* insight has a type among warning, info, success, tip and a confidence in
\* [0,1].
C2_InsightsValid ==
    InsightsDone =>
        /\ aiCall.outcome.kind = "return"
        /\ Len(aiCall.outcome.value) >= 1
        /\ \A i \in 1..Len(aiCall.outcome.value) :
              LET x == aiCall.outcome.value[i] IN
              /\ x.type \in InsightTypes
              /\ x.confidence.t = "num"
              /\ 0 <= x.confidence.n /\ x.confidence.n <= 10

\* The characters ECMAScript counts as white space or line terminators.
Blank ==
    { " ", "\t", "\n", "\r", "\f", "U+000B", "U+00A0", "U+FEFF", "U+1680",
      "U+2028", "U+2029", "U+202F", "U+205F", "U+3000" }
    \cup {"U+200" \o d : d \in {"0", "1", "2", "3", "4", "5", "6", "7", "8", "9", "A"}}

\* The text r is the text s without its leading and trailing whitespace.
IsTrimOf(r, s) ==
    \E i \in 1..(Len(s) + 1), j \in 0..Len(s) :
        /\ r = SubSeq(s, i, j)
        /\ \A k \in 1..(i - 1) : s[k] \in Blank
        /\ \A k \in (j + 1)..Len(s) : s[k] \in Blank
        /\ r = <<>> \/ (r[1] \notin Blank /\ r[Len(r)] \notin Blank)

TheCategories ==
    { <<"F", "o", "o", "d">>,
      <<"T", "r", "a", "n", "s", "p", "o", "r", "t", "a", "t", "i", "o", "n">>,
      <<"E", "n", "t", "e", "r", "t", "a", "i", "n", "m", "e", "n", "t">>,
      <<"S", "h", "o", "p", "p", "i", "n", "g">>,
      <<"B", "i", "l", "l", "s">>,
      <<"H", "e", "a", "l", "t", "h", "c", "a", "r", "e">>,
      <<"O", "t", "h", "e", "r">> }

\* C3: categorizeExpense returns one of the seven categories: the model's
\* text without its outer whitespace when that is, letter for letter, one of
\* them, and "Other" for any other text and when the call fails.
C3_CategoryInSet ==
    CategorizeDone =>
        /\ aiCall.outcome.kind = "return"
        /\ aiCall.outcome.value.t = "text"
        /\ aiCall.outcome.value.s \in TheCategories
        /\ IF /\ aiCall.res.kind = "resolve"
              /\ aiCall.res.text.t = "text"
              /\ \E c \in TheCategories : IsTrimOf(c, aiCall.res.text.s)
           THEN IsTrimOf(aiCall.outcome.value.s, aiCall.res.text.s)
           ELSE aiCall.outcome.value.s = <<"O", "t", "h", "e", "r">>

\* The model's text had whitespace around a category other than "Other",
\* and the call returned that category.
C3_Witness ==
    /\ CategorizeDone
    /\ aiCall.res.kind = "resolve" /\ aiCall.res.text.t = "text"
    /\ aiCall.res.text.s # aiCall.outcome.value.s
    /\ IsTrimOf(aiCall.outcome.value.s, aiCall.res.text.s)
    /\ aiCall.outcome.value.s # <<"O", "t", "h", "e", "r">>

\* C4: generateAIAnswer always returns; for every model text that is not
\* empty it returns a non-empty string without outer whitespace, and the
\* apology when the call throws or the text is empty.
C4_AnswerNonEmptyTrimmed ==
    AnswerDone =>
        /\ aiCall.outcome.kind = "return"
        /\ IF aiCall.res.kind = "resolve" /\ TextTruthy(aiCall.res.text)
           THEN /\ aiCall.outcome.value.s # <<>>
                /\ IsTrimOf(aiCall.outcome.value.s, aiCall.res.text.s)
           ELSE aiCall.outcome.value = Text(ApologyText)

\* What the spec has each field default to.
SpecDefault(key) ==
    CASE key = "type" -> Str("info")
      [] key = "title" -> Str("AI Insight")
      [] key = "message" -> Str("Analysis complete")
      [] key = "confidence" -> Num(8)

\* C10: when the parsed array is mapped, the list returned has its length
\* and order, element i has the id "ai-<timestamp>-<i>", the ids differ
\* pairwise, a field the element supplies is passed through unchanged and a
\* field it lacks takes its default, and no required field is left out.
C10_SuccessPathMapping ==
    (InsightsDone /\ ~InsightsCallFails(aiCall.res)
        /\ \A i \in 1..Len(JSONParse(aiCall.res.text.s).val.a) :
              JSONParse(aiCall.res.text.s).val.a[i].t # "null") =>
        LET in == JSONParse(aiCall.res.text.s).val.a
            out == aiCall.outcome.value IN
        /\ aiCall.outcome.kind = "return"
        /\ Len(out) = Len(in)
        /\ \A i \in 1..Len(out) :
              /\ out[i].id = Str("ai-" \o ToString(aiCall.now[i]) \o "-" \o ToString(i - 1))
              /\ \A j \in 1..Len(out) : i # j => out[i].id # out[j].id
              /\ \A key \in {"type", "title", "message", "confidence"} :
                    /\ out[i][key] # Undefined
                    /\ out[i][key] = IF in[i].t = "obj" /\ key \in DOMAIN in[i].o
                                     THEN in[i].o[key]
                                     ELSE SpecDefault(key)
              /\ (in[i].t = "obj" /\ "action" \in DOMAIN in[i].o) =>
                    out[i].action = in[i].o["action"]

(***************************************************************************)
(* The claim about both modules.                                           *)
(***************************************************************************)

\* C8: the only errors a checkUser call rejects with are those of the
\* database, a call that rejects has returned nothing and its failing step
\* leaves the table as it was; a failing model call never makes a call of
\* the insight generator throw: each returns its own fallback value.
C8_OnlyDatabaseErrorsSurface ==
    /\ [](\A p \in Calls :
            /\ err[p] # NoError => (pc[p] = "threw" /\ result[p] = Undefined)
            /\ pc[p] = "threw" => err[p] \in {DbError, DuplicateKey})
    /\ [][\A p \in Calls : (pc[p] # "threw" /\ pc'[p] = "threw") => users' = users]_vars
    /\ [](aiCall.status = "done" /\ aiCall.op # "none" =>
            /\ aiCall.outcome.kind = "return"
            /\ aiCall.op = "generateExpenseInsights" => aiCall.outcome.value = TheFallbackList
            /\ aiCall.op = "categorizeExpense" =>
                  aiCall.outcome.value = Text(<<"O", "t", "h", "e", "r">>)
            /\ aiCall.op = "generateAIAnswer" => aiCall.outcome.value = Text(ApologyText))

\* C8, amended: a checkUser call rejects with the failure of its session
\* read (before any session is known), of reading the first email address
\* of a session without one (after its lookup found no row and before any
\* create), of its lookup or of its create, and with nothing else; a call
\* that rejects has returned nothing and its failing step leaves the table
\* as it was; a failing model call never makes a call of the insight
\* generator throw: each returns its own fallback value.
C8_UncaughtFailuresSurface ==
    /\ [](\A p \in Calls :
            /\ err[p] # NoError => (pc[p] = "threw" /\ result[p] = Undefined)
            /\ pc[p] = "threw" =>
                  \/ err[p] = AuthError /\ user[p] = Undefined
                  \/ /\ err[p] = TypeError
                     /\ user[p].t = "obj" /\ Len(user[p].emailAddresses) = 0
                     /\ existingUser[p] = Null /\ ~createIssued[p]
                  \/ /\ err[p] = DbError
                     /\ user[p].t = "obj"
                     /\ createIssued[p] \/ existingUser[p] = Undefined
                  \/ err[p] = DuplicateKey /\ user[p].t = "obj" /\ createIssued[p])
    /\ [][\A p \in Calls : (pc[p] # "threw" /\ pc'[p] = "threw") => users' = users]_vars
    /\ [](aiCall.status = "done" /\ aiCall.op # "none" =>
            /\ aiCall.outcome.kind = "return"
            /\ aiCall.op = "generateExpenseInsights" => aiCall.outcome.value = TheFallbackList
            /\ aiCall.op = "categorizeExpense" =>
                  aiCall.outcome.value = Text(Other)
            /\ aiCall.op = "generateAIAnswer" => aiCall.outcome.value = Text(ApologyText))

\* With a row stored, one call has rejected with the failure of its lookup
\* and another on a session without an email address, and a call of the
\* insight generator whose model call threw has returned its fallback.
C8_Witness ==
    /\ users # {}
    /\ \E p, q \in Calls :
          /\ pc[p] = "threw" /\ err[p] = DbError /\ ~createIssued[p]
          /\ pc[q] = "threw" /\ err[q] = TypeError
    /\ InsightsDone
    /\ aiCall.res.kind = "reject"
    /\ aiCall.outcome.kind = "return"
====
